---- MODULE Spec2Model ----
(***************************************************************************)
(* Reverberation-time engine of Statistica: the Room / Material data model *)
(* (src/models) and the engine functions (src/utils/acoustic_calculations). *)
(*                                                                         *)
(* Numbers.  Python floats are modelled by exact integer arithmetic:       *)
(*   lengths in m, areas in m2, volumes in m3 (integers);                  *)
(*   absorption coefficients in hundredths (0.02 is 2, 0.99 is 99);        *)
(*   absorption areas in hundredths of m2 (8.8 m2 is 880);                 *)
(*   an average coefficient is a fraction [num, den] with den > 0;         *)
(*   phi and the air-absorption coefficient in 1/10000 (0.0010 is 10);     *)
(*   the denominator of the reverberation formula in 1/10000 m2;           *)
(*   a reverberation time is a fraction [num, den] of seconds, den > 0.    *)
(* Python None is Nil, a present value v is Some(v).  A call that raises   *)
(* yields [ok |-> FALSE, exc |-> <exception class>, msg |-> <which raise>].*)
(***************************************************************************)
EXTENDS Integers, Sequences, FiniteSets, TLC

\* room:  the fields of the Room object, its materials list included
\* built: the constructor returned, so the program holds the Room
\* last:  the most recent call on the Room, the Material or the engine, with
\*        its outcome
\* mat:   the fields of a Material object held on its own, outside a room
\*        (built then tells that its constructor returned)
\* heap:  the dictionary objects of the program, heap[ref] being the items of
\*        the dictionary with reference ref; heap[1] is the caller's mapping
\* placed: the Materials built from the caller's mapping, in order, each
\*        holding in absorption_coefficients the reference of its dictionary
VARIABLES room, built, last, mat, heap, placed

vars == <<room, built, last, mat, heap, placed>>

---------------------------------------------------------------------------
(* Values, optional values, outcomes of calls *)

Nil == <<>>

Some(v) == <<v>>

Val(x) == x[1]

Ok(v) == [ok |-> TRUE, val |-> v]

Raise(exc, msg) == [ok |-> FALSE, exc |-> exc, msg |-> msg]

\* a fraction n/d brought to a positive denominator; d # 0
Frac(n, d) == IF d > 0 THEN [num |-> n, den |-> d] ELSE [num |-> -n, den |-> -d]

FracLeq(a, b) == a.num * b.den <= b.num * a.den

FracLess(a, b) == a.num * b.den < b.num * a.den

FracMin(a, b) == IF FracLess(b, a) THEN b ELSE a

---------------------------------------------------------------------------
(* Material: src/models/material.py *)

\* the two category strings of the code, transliterated to ASCII:
\* "Ogranichivayushchie konstruktsii" (enclosing structures) and
\* "Akusticheskie konstruktsii" (acoustic treatment)
STRUCTURAL == "Structural"

ACOUSTIC == "Acoustic"

Categories == {STRUCTURAL, ACOUSTIC}

\* the five surface types of the code (walls, ceiling, floor, glazing, doors)
SurfaceTypes == {"Walls", "Ceiling", "Floor", "Glazing", "Doors"}

\* the six bands every computation iterates, in order
Frequencies == <<125, 250, 500, 1000, 2000, 4000>>

FrequencySet == {Frequencies[i] : i \in 1..Len(Frequencies)}

\* a Material as its constructor leaves it
Material(name, surface_type, area, absorption_coefficients, category) ==
    [class |-> "Material", name |-> name, surface_type |-> surface_type,
     area |-> area, category |-> category,
     absorption_coefficients |-> absorption_coefficients]

\* str.strip() on the names the model uses: a blank name strips to ""
Strip(name) == IF name \in {"", " "} THEN "" ELSE name

\* a band as a caller hands it over: a Python number, an int or a float
Number(type, value) == [type |-> type, value |-> value]

\* the negation of "not isinstance(freq, int) or freq <= 0"
IsPositiveInt(frequency) == frequency.type = "int" /\ frequency.value > 0

\* 0 <= coeff <= 1.0, the coefficient in hundredths
InUnitRange(coefficient) == 0 <= coefficient /\ coefficient <= 100

\* the loop over absorption_coefficients.items(), a sequence of
\* <<band, coefficient>> in the dictionary's order: the first bad item raises
RECURSIVE CheckItems(_)
CheckItems(items) ==
    IF items = <<>> THEN Ok(Nil)
    ELSE IF ~IsPositiveInt(Head(items)[1])
        THEN Raise("ValueError", "frequency_not_positive_int")
    ELSE IF ~InUnitRange(Head(items)[2])
        THEN Raise("ValueError", "coefficient_out_of_range")
    ELSE CheckItems(Tail(items))

\* absorption_coefficients.copy() of a dictionary whose bands are all ints
CopyItems(items) ==
    [f \in {items[i][1].value : i \in 1..Len(items)} |->
        LET i == CHOOSE i \in 1..Len(items) : items[i][1].value = f
        IN items[i][2]]

\* Material.__init__: the validation, in the order of the code
MaterialInit(name, surface_type, area, items, category) ==
    IF Strip(name) = "" THEN Raise("ValueError", "material_name_empty")
    ELSE IF area <= 0 THEN Raise("ValueError", "material_area_not_positive")
    ELSE IF surface_type \notin SurfaceTypes
        THEN Raise("ValueError", "bad_surface_type")
    ELSE IF category \notin Categories THEN Raise("ValueError", "bad_category")
    ELSE IF ~CheckItems(items).ok THEN CheckItems(items)
    ELSE Ok(Material(name, surface_type, area, CopyItems(items), category))

\* the lookup answering 0 for a band the dictionary lacks
get_absorption_coefficient_or_zero(m, frequency) ==
    IF frequency \notin DOMAIN m.absorption_coefficients THEN Ok(0)
    ELSE Ok(m.absorption_coefficients[frequency])

get_absorption_coefficient(m, frequency) ==
    IF frequency \notin DOMAIN m.absorption_coefficients
    THEN Raise("ValueError", "coefficient_not_found")
    ELSE Ok(m.absorption_coefficients[frequency])

\* the setter without its range test
set_absorption_coefficient_unchecked(m, frequency, coefficient) ==
    IF ~IsPositiveInt(frequency)
    THEN [out |-> Raise("ValueError", "frequency_not_positive_int"), material |-> m]
    ELSE [out |-> Ok(Nil),
          material |-> [m EXCEPT !.absorption_coefficients =
                            (frequency.value :> coefficient) @@ @]]

\* Material.set_absorption_coefficient: the outcome and the object it leaves
set_absorption_coefficient(m, frequency, coefficient) ==
    IF ~IsPositiveInt(frequency)
    THEN [out |-> Raise("ValueError", "frequency_not_positive_int"), material |-> m]
    ELSE IF ~InUnitRange(coefficient)
    THEN [out |-> Raise("ValueError", "coefficient_out_of_range"), material |-> m]
    ELSE [out |-> Ok(Nil),
          material |-> [m EXCEPT !.absorption_coefficients =
                            (frequency.value :> coefficient) @@ @]]

\* area x coefficient, in hundredths of m2
calculate_absorption_area(m, frequency) ==
    IF ~get_absorption_coefficient(m, frequency).ok
    THEN get_absorption_coefficient(m, frequency)
    ELSE Ok(m.area * get_absorption_coefficient(m, frequency).val)

\* the area stored before it is tested
update_area_assign_first(m, new_area) ==
    IF new_area <= 0
    THEN [out |-> Raise("ValueError", "material_area_not_positive"),
          material |-> [m EXCEPT !.area = new_area]]
    ELSE [out |-> Ok(Nil), material |-> [m EXCEPT !.area = new_area]]

update_area(m, new_area) ==
    IF new_area <= 0
    THEN [out |-> Raise("ValueError", "material_area_not_positive"), material |-> m]
    ELSE [out |-> Ok(Nil), material |-> [m EXCEPT !.area = new_area]]

\* the dictionary kept as it is handed over: no new object
dict_shared(objects, ref) == [heap |-> objects, ref |-> ref]

\* absorption_coefficients.copy() among the program's dictionary objects: a
\* new object with the items of the one copied, and its reference
dict_copy(objects, ref) ==
    [heap |-> Append(objects, objects[ref]), ref |-> Len(objects) + 1]

\* Material(...) called with the dictionary object ref: the outcome, the
\* dictionary objects afterwards and the reference the Material holds.  The
\* copy is taken first; when the validation raises, no Material holds it.
\* The bands of a dictionary object are positive ints here, so the loop over
\* its items can only raise for a coefficient
MaterialFrom(objects, ref, name, surface_type, area, category) ==
    LET copied == dict_copy(objects, ref)
        checked == MaterialInit(name, surface_type, area, <<>>, category)
    IN IF ~checked.ok THEN [out |-> checked, heap |-> objects]
       ELSE IF \E f \in DOMAIN objects[ref] : ~InUnitRange(objects[ref][f])
       THEN [out |-> Raise("ValueError", "coefficient_out_of_range"),
             heap |-> objects]
       ELSE [out |-> Ok(Material(name, surface_type, area, copied.ref, category)),
             heap |-> copied.heap]

\* dictionary[frequency] = coefficient on the dictionary object ref
StoreItem(objects, ref, frequency, coefficient) ==
    [objects EXCEPT ![ref] = (frequency :> coefficient) @@ @]

\* Material.set_absorption_coefficient on a Material that holds the
\* reference of its dictionary: the outcome and the dictionary objects
SetCoefficientOf(objects, m, frequency, coefficient) ==
    IF ~IsPositiveInt(frequency)
    THEN [out |-> Raise("ValueError", "frequency_not_positive_int"), heap |-> objects]
    ELSE IF ~InUnitRange(coefficient)
    THEN [out |-> Raise("ValueError", "coefficient_out_of_range"), heap |-> objects]
    ELSE [out |-> Ok(Nil),
          heap |-> StoreItem(objects, m.absorption_coefficients,
                             frequency.value, coefficient)]

---------------------------------------------------------------------------
(* Room: src/models/room.py *)

Positive(x) == x # Nil /\ Val(x) > 0

NonPositive(x) == x # Nil /\ Val(x) <= 0

\* the fields the constructor stores, before it validates
RoomFields(name, length, width, height, wall, floor, ceiling, volume) ==
    [name |-> name, length |-> length, width |-> width, height |-> height,
     manual_wall_area |-> wall, manual_floor_area |-> floor,
     manual_ceiling_area |-> ceiling, manual_volume |-> volume,
     materials |-> <<>>]

has_dimensions(r) == Positive(r.length) /\ Positive(r.width) /\ Positive(r.height)

has_manual_areas(r) ==
    Positive(r.manual_wall_area) \/ Positive(r.manual_floor_area)
        \/ Positive(r.manual_ceiling_area)

\* Room.__init__: the validation, in the order of the code
RoomInit(r) ==
    IF Strip(r.name) = "" THEN Raise("ValueError", "room_name_empty")
    ELSE IF ~has_dimensions(r) /\ ~has_manual_areas(r)
        THEN Raise("ValueError", "room_no_geometry")
    ELSE IF has_dimensions(r)
            /\ (r.length # Nil /\ r.width # Nil /\ r.height # Nil)
            /\ (Val(r.length) <= 0 \/ Val(r.width) <= 0 \/ Val(r.height) <= 0)
        THEN Raise("ValueError", "room_dimensions_not_positive")
    ELSE IF NonPositive(r.manual_wall_area)
        THEN Raise("ValueError", "room_wall_area_not_positive")
    ELSE IF NonPositive(r.manual_floor_area)
        THEN Raise("ValueError", "room_floor_area_not_positive")
    ELSE IF NonPositive(r.manual_ceiling_area)
        THEN Raise("ValueError", "room_ceiling_area_not_positive")
    ELSE Ok(r)

volume(r) ==
    IF r.manual_volume # Nil THEN Ok(Val(r.manual_volume))
    ELSE IF r.length # Nil /\ r.width # Nil /\ r.height # Nil
        THEN Ok(Val(r.length) * Val(r.width) * Val(r.height))
    ELSE Raise("ValueError", "volume_unresolved")

\* the wall area with the dimensions consulted before the manual value
wall_area_dimensions_first(r) ==
    IF r.length # Nil /\ r.width # Nil /\ r.height # Nil
        THEN Ok(2 * (Val(r.length) * Val(r.height) + Val(r.width) * Val(r.height)))
    ELSE IF r.manual_wall_area # Nil THEN Ok(Val(r.manual_wall_area))
    ELSE Raise("ValueError", "wall_area_unresolved")

wall_area(r) ==
    IF r.manual_wall_area # Nil THEN Ok(Val(r.manual_wall_area))
    ELSE IF r.length # Nil /\ r.width # Nil /\ r.height # Nil
        THEN Ok(2 * (Val(r.length) * Val(r.height) + Val(r.width) * Val(r.height)))
    ELSE Raise("ValueError", "wall_area_unresolved")

floor_area(r) ==
    IF r.manual_floor_area # Nil THEN Ok(Val(r.manual_floor_area))
    ELSE IF r.length # Nil /\ r.width # Nil
        THEN Ok(Val(r.length) * Val(r.width))
    ELSE Raise("ValueError", "floor_area_unresolved")

ceiling_area(r) ==
    IF r.manual_ceiling_area # Nil THEN Ok(Val(r.manual_ceiling_area))
    ELSE IF r.length # Nil /\ r.width # Nil
        THEN Ok(Val(r.length) * Val(r.width))
    ELSE Raise("ValueError", "ceiling_area_unresolved")

\* wall + floor + ceiling, evaluated left to right: the first raise wins
total_surface_area(r) ==
    IF ~wall_area(r).ok THEN wall_area(r)
    ELSE IF ~floor_area(r).ok THEN floor_area(r)
    ELSE IF ~ceiling_area(r).ok THEN ceiling_area(r)
    ELSE Ok(wall_area(r).val + floor_area(r).val + ceiling_area(r).val)

\* the for-loop shared by the three absorption-area methods: area x coefficient
\* summed over the materials that pass the category test and hold the band;
\* categories is the set of categories the method's if-condition lets through
RECURSIVE total_absorption(_, _, _)
total_absorption(materials, frequency, categories) ==
    IF materials = <<>> THEN 0
    ELSE LET material == Head(materials)
             rest == total_absorption(Tail(materials), frequency, categories)
         IN IF material.category \in categories
                /\ frequency \in DOMAIN material.absorption_coefficients
            THEN material.area * material.absorption_coefficients[frequency] + rest
            ELSE rest

\* the threshold read as "below 500 Hz"
additional_absorption_coeff_below(frequency) == IF frequency < 500 THEN 9 ELSE 5

\* additional absorption per m2 of floor, in hundredths: 0.09 up to 500 Hz, else 0.05
additional_absorption_coeff(frequency) == IF frequency <= 500 THEN 9 ELSE 5

\* the all-materials area without the floor term, like its acoustic sibling
calculate_equivalent_absorption_area_bare(r, frequency) ==
    Ok(total_absorption(r.materials, frequency, Categories))

calculate_equivalent_absorption_area(r, frequency) ==
    IF ~floor_area(r).ok THEN floor_area(r)
    ELSE Ok(total_absorption(r.materials, frequency, Categories)
            + additional_absorption_coeff(frequency) * floor_area(r).val)

calculate_structural_absorption_area(r, frequency) ==
    IF ~floor_area(r).ok THEN floor_area(r)
    ELSE Ok(total_absorption(r.materials, frequency, {STRUCTURAL})
            + additional_absorption_coeff(frequency) * floor_area(r).val)

\* the acoustic area given the floor term of its two siblings
calculate_acoustic_absorption_area_with_extra(r, frequency) ==
    IF ~floor_area(r).ok THEN floor_area(r)
    ELSE Ok(total_absorption(r.materials, frequency, {ACOUSTIC})
            + additional_absorption_coeff(frequency) * floor_area(r).val)

calculate_acoustic_absorption_area(r, frequency) ==
    Ok(total_absorption(r.materials, frequency, {ACOUSTIC}))

\* sum(mat.area for mat in room.materials if mat.category is acoustic)
RECURSIVE acoustic_area_total(_)
acoustic_area_total(materials) ==
    IF materials = <<>> THEN 0
    ELSE (IF Head(materials).category = ACOUSTIC THEN Head(materials).area ELSE 0)
         + acoustic_area_total(Tail(materials))

\* the return statement with its subtraction restored
get_effective_surface_area_subtracting(r) ==
    IF ~total_surface_area(r).ok THEN total_surface_area(r)
    ELSE Ok(total_surface_area(r).val - acoustic_area_total(r.materials))

\* the acoustic area is summed and then not subtracted (the subtraction is
\* commented out in the return statement)
get_effective_surface_area(r) == total_surface_area(r)

\* the ceiling 0.99 of the average coefficients and of phi
AlphaCeiling == Frac(99, 100)

\* the quotient returned without the ceiling
UnclampedQuotient(area, surface) ==
    IF ~area.ok THEN area
    ELSE IF ~surface.ok THEN surface
    ELSE IF surface.val = 0 THEN Raise("ZeroDivisionError", "division_by_zero")
    ELSE Ok(Frac(area.val, 100 * surface.val))

\* min(area / surface, 0.99); area in hundredths of m2, surface in m2
ClampedQuotient(area, surface) ==
    IF ~area.ok THEN area
    ELSE IF ~surface.ok THEN surface
    ELSE IF surface.val = 0 THEN Raise("ZeroDivisionError", "division_by_zero")
    ELSE Ok(FracMin(Frac(area.val, 100 * surface.val), AlphaCeiling))

calculate_average_absorption_coefficient(r, frequency) ==
    ClampedQuotient(calculate_equivalent_absorption_area(r, frequency),
                    total_surface_area(r))

calculate_structural_average_absorption_coefficient(r, frequency) ==
    ClampedQuotient(calculate_structural_absorption_area(r, frequency),
                    get_effective_surface_area(r))

calculate_combined_average_absorption_coefficient(r, frequency) ==
    ClampedQuotient(calculate_equivalent_absorption_area(r, frequency),
                    get_effective_surface_area(r))

---------------------------------------------------------------------------
(* Engine: src/utils/acoustic_calculations.py *)

\* math.log in fixed point: LnTable[i + 1] is -ln(1 - i/100) in 1/10000, rounded
LnTable ==
    <<0, 101, 202, 305, 408, 513, 619, 726, 834, 943, 1054, 1165, 1278,
      1393, 1508, 1625, 1744, 1863, 1985, 2107, 2231, 2357, 2485, 2614,
      2744, 2877, 3011, 3147, 3285, 3425, 3567, 3711, 3857, 4005, 4155,
      4308, 4463, 4620, 4780, 4943, 5108, 5276, 5447, 5621, 5798, 5978,
      6162, 6349, 6539, 6733, 6931, 7133, 7340, 7550, 7765, 7985, 8210,
      8440, 8675, 8916, 9163, 9416, 9676, 9943, 10217, 10498, 10788, 11087,
      11394, 11712, 12040, 12379, 12730, 13093, 13471, 13863, 14271, 14697,
      15141, 15606, 16094, 16607, 17148, 17720, 18326, 18971, 19661, 20402,
      21203, 22073, 23026, 24079, 25257, 26593, 28134, 29957, 32189, 35066,
      39120, 46052>>

\* -ln(1 - n/d) in 1/10000 for 0 <= n/d <= 0.99: the table, interpolated
\* linearly between its entries and rounded down
NegLnTable(n, d) ==
    LET i == (100 * n) \div d
        rem == 100 * n - i * d
    IN IF rem = 0 THEN LnTable[i + 1]
       ELSE LnTable[i + 1] + ((LnTable[i + 2] - LnTable[i + 1]) * rem) \div d

\* -ln(p/q) in 1/10000 for p, q > 0: above 1 by -ln(x) = ln(1/x), below 0.01
\* by -ln(x) = -ln(0.01) - ln(100 x)
RECURSIVE NegLn(_, _)
NegLn(p, q) ==
    IF p > q THEN -NegLn(q, p)
    ELSE IF 100 * p < q THEN LnTable[100] + NegLn(100 * p, q)
    ELSE NegLnTable(q - p, q)

\* what math.log is given: 1 - alpha_avg after alpha_avg = min(alpha_avg, 0.99)
LogArgument(alpha_avg) ==
    LET alpha == FracMin(alpha_avg, AlphaCeiling)
    IN Frac(alpha.den - alpha.num, alpha.den)

\* phi(alpha) = -ln(1 - min(alpha, 0.99)), in 1/10000
calculate_phi_function(alpha_avg) ==
    LET argument == LogArgument(alpha_avg)
    IN NegLn(argument.num, argument.den)

\* the table read with a default of 0
get_air_absorption_coefficient_default_zero(frequency) ==
    CASE frequency = 2000 -> 10
      [] frequency = 4000 -> 2
      [] OTHER -> 0

\* air absorption n in 1/10000: the table, and 0.0006 for any other band
get_air_absorption_coefficient(frequency) ==
    CASE frequency \in {125, 250, 500, 1000} -> 0
      [] frequency = 2000 -> 10
      [] frequency = 4000 -> 2
      [] OTHER -> 6

\* the denominator area with has_acoustic_materials left unread
DenominatorAreaUnflagged(r, surface_area, has_acoustic_materials) ==
    IF surface_area = Nil THEN total_surface_area(r) ELSE Ok(Val(surface_area))

\* the denominator area: the given surface area (the room's total when none
\* is given), less the acoustic materials' area when has_acoustic_materials
DenominatorArea(r, surface_area, has_acoustic_materials) ==
    LET given == IF surface_area = Nil THEN total_surface_area(r)
                 ELSE Ok(Val(surface_area))
    IN IF ~given.ok THEN given
       ELSE IF has_acoustic_materials
           THEN Ok(given.val - acoustic_area_total(r.materials))
       ELSE given

\* the quotient held to the ceiling of the Room's average coefficients
avg_alpha_clamped(equivalent_absorption_area, effective_surface_area) ==
    FracMin(Frac(equivalent_absorption_area, 100 * effective_surface_area),
            AlphaCeiling)

\* avg_alpha = equivalent_absorption_area / effective_surface_area, the area
\* in hundredths of m2 over the surface in m2; this is what phi is called with
avg_alpha(equivalent_absorption_area, effective_surface_area) ==
    Frac(equivalent_absorption_area, 100 * effective_surface_area)

\* the denominator of the formula in 1/10000 m2, given a non-zero area
Denominator(r, frequency, equivalent_absorption_area, effective_surface_area) ==
    LET phi_value ==
            calculate_phi_function(
                avg_alpha(equivalent_absorption_area, effective_surface_area))
    IN IF frequency <= 1000 THEN Ok(effective_surface_area * phi_value)
       ELSE IF ~volume(r).ok THEN volume(r)
       ELSE Ok(effective_surface_area * phi_value
               + get_air_absorption_coefficient(frequency) * volume(r).val)

\* the function without its zero test: the division itself raises
calculate_reverberation_time_for_frequency_unguarded(r, frequency, alpha_avg, equivalent_absorption_area, surface_area, has_acoustic_materials) ==
    LET area == DenominatorArea(r, surface_area, has_acoustic_materials)
        denominator == Denominator(r, frequency, equivalent_absorption_area, area.val)
    IN IF ~area.ok THEN area
       ELSE IF area.val = 0 THEN Raise("ZeroDivisionError", "division_by_zero")
       ELSE IF ~denominator.ok THEN denominator
       ELSE IF ~volume(r).ok THEN volume(r)
       ELSE IF denominator.val = 0 THEN Raise("ZeroDivisionError", "division_by_zero")
       ELSE Ok(Frac(1630 * volume(r).val, denominator.val))

\* the function taking phi of the alpha_avg it is given
calculate_reverberation_time_for_frequency_given_alpha(r, frequency, alpha_avg, equivalent_absorption_area, surface_area, has_acoustic_materials) ==
    LET area == DenominatorArea(r, surface_area, has_acoustic_materials)
        phi_value == calculate_phi_function(alpha_avg)
        denominator ==
            IF frequency <= 1000 THEN Ok(area.val * phi_value)
            ELSE IF ~volume(r).ok THEN volume(r)
            ELSE Ok(area.val * phi_value
                    + get_air_absorption_coefficient(frequency) * volume(r).val)
    IN IF ~area.ok THEN area
       ELSE IF area.val = 0 THEN Raise("ZeroDivisionError", "division_by_zero")
       ELSE IF ~denominator.ok THEN denominator
       ELSE IF denominator.val = 0 THEN Raise("ValueError", "zero_denominator")
       ELSE IF ~volume(r).ok THEN volume(r)
       ELSE Ok(Frac(1630 * volume(r).val, denominator.val))

\* 0.163 V / denominator seconds: 0.163 is 1630/10000, the denominator in 1/10000 m2
calculate_reverberation_time_for_frequency(r, frequency, alpha_avg, equivalent_absorption_area, surface_area, has_acoustic_materials) ==
    LET area == DenominatorArea(r, surface_area, has_acoustic_materials)
        denominator == Denominator(r, frequency, equivalent_absorption_area, area.val)
    IN IF ~area.ok THEN area
       ELSE IF area.val = 0 THEN Raise("ZeroDivisionError", "division_by_zero")
       ELSE IF ~denominator.ok THEN denominator
       ELSE IF denominator.val = 0 THEN Raise("ValueError", "zero_denominator")
       ELSE IF ~volume(r).ok THEN volume(r)
       ELSE Ok(Frac(1630 * volume(r).val, denominator.val))

\* floor(sqrt(n)) for n >= 0, found by bisection between lo and hi
RECURSIVE IsqrtBetween(_, _, _)
IsqrtBetween(n, lo, hi) ==
    IF lo >= hi THEN lo
    ELSE LET mid == (lo + hi + 1) \div 2
         IN IF mid * mid <= n THEN IsqrtBetween(n, mid, hi)
            ELSE IsqrtBetween(n, lo, mid - 1)

\* 1770 / math.sqrt(volume) in tenths of a hertz, rounded down:
\* floor(17700 / sqrt(V)) = floor(sqrt(17700 * 17700 / V))
calculate_critical_frequency(r) ==
    IF ~volume(r).ok THEN volume(r)
    ELSE IF volume(r).val < 0 THEN Raise("ValueError", "math_domain_error")
    ELSE IF volume(r).val = 0 THEN Raise("ZeroDivisionError", "division_by_zero")
    ELSE Ok(IsqrtBetween((17700 * 17700) \div volume(r).val, 0, 17700))

\* the first i in 1..Len(outs) whose outcome is a raise, 0 when there is none
RECURSIVE FirstRaise(_, _)
FirstRaise(outs, i) ==
    IF i > Len(outs) THEN 0
    ELSE IF ~outs[i].ok THEN i
    ELSE FirstRaise(outs, i + 1)

\* the exception of the band let through as it is
BandErrorUnwrapped(frequency, e) == e

\* except Exception as e: raise ValueError("... frequency {f} ...: {e}")
BandError(frequency, e) ==
    [ok |-> FALSE, exc |-> "ValueError", msg |-> "band_error",
     frequency |-> frequency, cause |-> e]

\* the structural band with has_acoustic_materials passed as True
StructuralBandFlagged(r, frequency) ==
    LET equivalent_absorption_area == calculate_structural_absorption_area(r, frequency)
        alpha_avg == calculate_structural_average_absorption_coefficient(r, frequency)
        effective_surface_area == get_effective_surface_area(r)
        reverberation_time ==
            calculate_reverberation_time_for_frequency(r, frequency, alpha_avg.val,
                equivalent_absorption_area.val, Some(effective_surface_area.val), TRUE)
    IN IF ~equivalent_absorption_area.ok THEN equivalent_absorption_area
       ELSE IF ~alpha_avg.ok THEN alpha_avg
       ELSE IF ~effective_surface_area.ok THEN effective_surface_area
       ELSE IF ~reverberation_time.ok THEN reverberation_time
       ELSE Ok([reverberation_time |-> reverberation_time.val,
                alpha_avg |-> alpha_avg.val,
                equivalent_absorption_area |-> equivalent_absorption_area.val,
                phi_value |-> calculate_phi_function(alpha_avg.val)])

\* the body of the try block of the structural loop, for one band
StructuralBand(r, frequency) ==
    LET equivalent_absorption_area == calculate_structural_absorption_area(r, frequency)
        alpha_avg == calculate_structural_average_absorption_coefficient(r, frequency)
        effective_surface_area == get_effective_surface_area(r)
        reverberation_time ==
            calculate_reverberation_time_for_frequency(r, frequency, alpha_avg.val,
                equivalent_absorption_area.val, Some(effective_surface_area.val), FALSE)
    IN IF ~equivalent_absorption_area.ok THEN equivalent_absorption_area
       ELSE IF ~alpha_avg.ok THEN alpha_avg
       ELSE IF ~effective_surface_area.ok THEN effective_surface_area
       ELSE IF ~reverberation_time.ok THEN reverberation_time
       ELSE Ok([reverberation_time |-> reverberation_time.val,
                alpha_avg |-> alpha_avg.val,
                equivalent_absorption_area |-> equivalent_absorption_area.val,
                phi_value |-> calculate_phi_function(alpha_avg.val)])

\* the combined band with has_acoustic_materials passed as True
CombinedBandSubtracting(r, frequency) ==
    LET equivalent_absorption_area == calculate_equivalent_absorption_area(r, frequency)
        structural_absorption_area == calculate_structural_absorption_area(r, frequency)
        acoustic_absorption_area == calculate_acoustic_absorption_area(r, frequency)
        alpha_avg == calculate_combined_average_absorption_coefficient(r, frequency)
        reverberation_time ==
            calculate_reverberation_time_for_frequency(r, frequency, alpha_avg.val,
                equivalent_absorption_area.val, Nil, TRUE)
    IN IF ~equivalent_absorption_area.ok THEN equivalent_absorption_area
       ELSE IF ~structural_absorption_area.ok THEN structural_absorption_area
       ELSE IF ~acoustic_absorption_area.ok THEN acoustic_absorption_area
       ELSE IF ~alpha_avg.ok THEN alpha_avg
       ELSE IF ~reverberation_time.ok THEN reverberation_time
       ELSE Ok([reverberation_time |-> reverberation_time.val,
                alpha_avg |-> alpha_avg.val,
                equivalent_absorption_area |-> equivalent_absorption_area.val,
                structural_absorption_area |-> structural_absorption_area.val,
                acoustic_absorption_area |-> acoustic_absorption_area.val,
                phi_value |-> calculate_phi_function(alpha_avg.val)])

\* the body of the try block of the combined loop, for one band
CombinedBand(r, frequency) ==
    LET equivalent_absorption_area == calculate_equivalent_absorption_area(r, frequency)
        structural_absorption_area == calculate_structural_absorption_area(r, frequency)
        acoustic_absorption_area == calculate_acoustic_absorption_area(r, frequency)
        alpha_avg == calculate_combined_average_absorption_coefficient(r, frequency)
        reverberation_time ==
            calculate_reverberation_time_for_frequency(r, frequency, alpha_avg.val,
                equivalent_absorption_area.val, Nil, FALSE)
    IN IF ~equivalent_absorption_area.ok THEN equivalent_absorption_area
       ELSE IF ~structural_absorption_area.ok THEN structural_absorption_area
       ELSE IF ~acoustic_absorption_area.ok THEN acoustic_absorption_area
       ELSE IF ~alpha_avg.ok THEN alpha_avg
       ELSE IF ~reverberation_time.ok THEN reverberation_time
       ELSE Ok([reverberation_time |-> reverberation_time.val,
                alpha_avg |-> alpha_avg.val,
                equivalent_absorption_area |-> equivalent_absorption_area.val,
                structural_absorption_area |-> structural_absorption_area.val,
                acoustic_absorption_area |-> acoustic_absorption_area.val,
                phi_value |-> calculate_phi_function(alpha_avg.val)])

\* the index of a band in Frequencies
BandIndex(frequency) == CHOOSE i \in 1..Len(Frequencies) : Frequencies[i] = frequency

\* the results dictionary once the loop has stored every band
StructuralResults(r, bands) ==
    [calculation_type |-> STRUCTURAL,
     critical_frequency |-> calculate_critical_frequency(r).val,
     reverberation_times |->
        [f \in FrequencySet |-> bands[BandIndex(f)].val.reverberation_time],
     average_absorption_coefficients |->
        [f \in FrequencySet |-> bands[BandIndex(f)].val.alpha_avg],
     equivalent_absorption_areas |->
        [f \in FrequencySet |-> bands[BandIndex(f)].val.equivalent_absorption_area],
     phi_values |-> [f \in FrequencySet |-> bands[BandIndex(f)].val.phi_value],
     room_volume |-> volume(r).val,
     total_surface_area |-> total_surface_area(r).val,
     effective_surface_area |-> get_effective_surface_area(r).val]

CombinedResults(r, bands) ==
    [calculation_type |-> "Combined",
     critical_frequency |-> calculate_critical_frequency(r).val,
     reverberation_times |->
        [f \in FrequencySet |-> bands[BandIndex(f)].val.reverberation_time],
     average_absorption_coefficients |->
        [f \in FrequencySet |-> bands[BandIndex(f)].val.alpha_avg],
     equivalent_absorption_areas |->
        [f \in FrequencySet |-> bands[BandIndex(f)].val.equivalent_absorption_area],
     structural_absorption_areas |->
        [f \in FrequencySet |-> bands[BandIndex(f)].val.structural_absorption_area],
     acoustic_absorption_areas |->
        [f \in FrequencySet |-> bands[BandIndex(f)].val.acoustic_absorption_area],
     phi_values |-> [f \in FrequencySet |-> bands[BandIndex(f)].val.phi_value],
     room_volume |-> volume(r).val,
     total_surface_area |-> total_surface_area(r).val,
     effective_surface_area |-> get_effective_surface_area(r).val]

\* the bands among the first n whose reverberation time exceeds 10 s, in
\* order: one printed warning each
RECURSIVE Warnings(_, _)
Warnings(results, n) ==
    IF n = 0 THEN <<>>
    ELSE LET reverberation_time == results.reverberation_times[Frequencies[n]]
         IN Warnings(results, n - 1)
            \o (IF reverberation_time.num > 10 * reverberation_time.den
                THEN <<Frequencies[n]>> ELSE <<>>)

\* the checks of one band with the 10 s warning turned into a raise
ValidateBandStrict(results, frequency) ==
    LET reverberation_time == results.reverberation_times[frequency]
        alpha_avg == results.average_absorption_coefficients[frequency]
    IN IF reverberation_time.num <= 0
          \/ reverberation_time.num > 10 * reverberation_time.den
       THEN [ok |-> FALSE, exc |-> "ValueError",
             msg |-> "reverberation_time_not_positive", frequency |-> frequency]
       ELSE IF ~(0 <= alpha_avg.num /\ alpha_avg.num <= alpha_avg.den)
       THEN [ok |-> FALSE, exc |-> "ValueError",
             msg |-> "average_coefficient_out_of_range", frequency |-> frequency]
       ELSE Ok(Nil)

\* the checks of one band: the time first, then the coefficient
ValidateBand(results, frequency) ==
    LET reverberation_time == results.reverberation_times[frequency]
        alpha_avg == results.average_absorption_coefficients[frequency]
    IN IF reverberation_time.num <= 0
       THEN [ok |-> FALSE, exc |-> "ValueError",
             msg |-> "reverberation_time_not_positive", frequency |-> frequency]
       ELSE IF ~(0 <= alpha_avg.num /\ alpha_avg.num <= alpha_avg.den)
       THEN [ok |-> FALSE, exc |-> "ValueError",
             msg |-> "average_coefficient_out_of_range", frequency |-> frequency]
       ELSE Ok(Nil)

\* the first band that fails raises.  printed lists the warnings written to
\* the output before the call ends: those of the bands before the failing
\* one, and the failing band's own when its time passed and its coefficient
\* did not
validate_calculation_results(results) ==
    LET outs == [i \in 1..Len(Frequencies) |-> ValidateBand(results, Frequencies[i])]
        bad == FirstRaise(outs, 1)
    IN IF bad = 0
       THEN [out |-> Ok(Nil), printed |-> Warnings(results, Len(Frequencies))]
       ELSE IF outs[bad].msg = "reverberation_time_not_positive"
       THEN [out |-> outs[bad], printed |-> Warnings(results, bad - 1)]
       ELSE [out |-> outs[bad], printed |-> Warnings(results, bad)]

\* what a top-level computation leaves behind: its outcome, the results
\* dictionary as it stood when validation began (Nil when the call ended
\* before) and the warnings printed
Computation(out, results, printed) ==
    [out |-> out, results |-> results, printed |-> printed]

\* the guard written "room.materials is None", which a list never is
NoMaterialsIsNone(r) == FALSE

\* "if not room.materials": the guard both computations open with
NoMaterials(r) == r.materials = <<>>

\* the structural computation given the outcomes of its six bands
StructuralRun(r, bands) ==
    LET bad == FirstRaise(bands, 1)
        results == StructuralResults(r, bands)
        checked == validate_calculation_results(results)
    IN IF NoMaterials(r)
       THEN Computation(Raise("ValueError", "no_materials"), Nil, <<>>)
       ELSE IF ~calculate_critical_frequency(r).ok
       THEN Computation(calculate_critical_frequency(r), Nil, <<>>)
       ELSE IF ~total_surface_area(r).ok
       THEN Computation(total_surface_area(r), Nil, <<>>)
       ELSE IF ~get_effective_surface_area(r).ok
       THEN Computation(get_effective_surface_area(r), Nil, <<>>)
       ELSE IF bad # 0
       THEN Computation(BandError(Frequencies[bad], bands[bad]), Nil, <<>>)
       ELSE IF ~checked.out.ok
       THEN Computation(checked.out, Some(results), checked.printed)
       ELSE Computation(Ok(results), Some(results), checked.printed)

\* the six bands are calculated once, in order, and the outcome follows
calculate_structural_reverberation_time(r) ==
    CHOOSE computation \in
        {StructuralRun(r, bands) :
            bands \in {[i \in 1..Len(Frequencies) |-> StructuralBand(r, Frequencies[i])]}} :
        TRUE

\* the combined computation given the outcomes of its six bands
CombinedRun(r, bands) ==
    LET bad == FirstRaise(bands, 1)
        results == CombinedResults(r, bands)
        checked == validate_calculation_results(results)
    IN IF NoMaterials(r)
       THEN Computation(Raise("ValueError", "no_materials"), Nil, <<>>)
       ELSE IF ~calculate_critical_frequency(r).ok
       THEN Computation(calculate_critical_frequency(r), Nil, <<>>)
       ELSE IF ~total_surface_area(r).ok
       THEN Computation(total_surface_area(r), Nil, <<>>)
       ELSE IF ~get_effective_surface_area(r).ok
       THEN Computation(get_effective_surface_area(r), Nil, <<>>)
       ELSE IF bad # 0
       THEN Computation(BandError(Frequencies[bad], bands[bad]), Nil, <<>>)
       ELSE IF ~checked.out.ok
       THEN Computation(checked.out, Some(results), checked.printed)
       ELSE Computation(Ok(results), Some(results), checked.printed)

\* the six bands are calculated once, in order, and the outcome follows
calculate_combined_reverberation_time(r) ==
    CHOOSE computation \in
        {CombinedRun(r, bands) :
            bands \in {[i \in 1..Len(Frequencies) |-> CombinedBand(r, Frequencies[i])]}} :
        TRUE

\* Room.add_material: the outcome, and the materials list it leaves
add_material(r, material) ==
    IF material.class # "Material"
    THEN [out |-> Raise("ValueError", "not_a_material"), materials |-> r.materials]
    ELSE [out |-> Ok(Nil), materials |-> Append(r.materials, material)]

\* list.pop(index) for an index inside the list
Pop(materials, index) ==
    [i \in 1..(Len(materials) - 1) |->
        IF i <= index THEN materials[i] ELSE materials[i + 1]]

\* the index handed to list.pop untested: a negative one counts from the end
remove_material_from_end(r, index) ==
    IF 0 <= index /\ index < Len(r.materials)
    THEN [out |-> Ok(Nil), materials |-> Pop(r.materials, index)]
    ELSE IF 0 <= index + Len(r.materials) /\ index < 0
    THEN [out |-> Ok(Nil),
          materials |-> Pop(r.materials, index + Len(r.materials))]
    ELSE [out |-> Raise("IndexError", "bad_material_index"), materials |-> r.materials]

\* Room.remove_material: index counts from 0
remove_material(r, index) ==
    IF 0 <= index /\ index < Len(r.materials)
    THEN [out |-> Ok(Nil), materials |-> Pop(r.materials, index)]
    ELSE [out |-> Raise("IndexError", "bad_material_index"), materials |-> r.materials]

\* the loop of get_total_area_by_material: the areas of the materials that
\* carry the name, added to a total that starts at 0
RECURSIVE total_area(_, _)
total_area(materials, material_name) ==
    IF materials = <<>> THEN 0
    ELSE (IF Head(materials).name = material_name THEN Head(materials).area ELSE 0)
         + total_area(Tail(materials), material_name)

\* Room.get_total_area_by_material: the total is returned as it stands
get_total_area_by_material(r, material_name) ==
    Ok(total_area(r.materials, material_name))

---------------------------------------------------------------------------
(* Inputs *)

MaxMaterials == 2

RoomNames == {"", " ", "Hall"}

LengthInputs == {Nil, Some(-2), Some(5)}

WidthInputs == {Some(4)}

HeightInputs == {Some(3)}

WallAreaInputs == {Nil, Some(-1), Some(10)}

FloorAreaInputs == {Nil, Some(8)}

CeilingAreaInputs == {Nil, Some(8)}

VolumeInputs == {Nil, Some(0), Some(6000)}

Concrete == Material("Concrete", "Floor", 20, [f \in FrequencySet |-> 2], STRUCTURAL)

Glass ==
    Material("Glass", "Glazing", 8, (125 :> 9) @@ (1000 :> 5) @@ (8000 :> 3), STRUCTURAL)

Panel ==
    Material("Panel", "Ceiling", 30,
             (125 :> 30) @@ (250 :> 60) @@ (500 :> 90) @@ (1000 :> 95)
                 @@ (2000 :> 90) @@ (4000 :> 85),
             ACOUSTIC)

MaterialInputs == {Concrete, Glass, Panel}

\* what a caller may hand to add_material: a Material, or some other object
AddInputs == MaterialInputs \cup {[class |-> "dict"]}

\* the bands the single-band queries are asked for: the two sides of the
\* 500 Hz and 1000 Hz thresholds and bands outside the air-absorption table
QueryBands == {500, 1000, 8000}

\* the names get_total_area_by_material is asked for
MaterialNameInputs == {"Concrete", "Marble"}

\* the arguments of direct calls of calculate_reverberation_time_for_frequency
ReverberationBands == {63, 1000, 2000, 4000, 8000}

AbsorptionAreaInputs == {0, 880}

SurfaceAreaInputs == {Nil, Some(0), Some(38)}

AlphaInputs == {Frac(1, 10), Frac(1, 2)}

---------------------------------------------------------------------------
(* The state machine *)

Init ==
    \E name \in RoomNames, length \in LengthInputs, width \in WidthInputs,
       height \in HeightInputs, wall \in WallAreaInputs, floor \in FloorAreaInputs,
       ceiling \in CeilingAreaInputs, vol \in VolumeInputs :
        LET r == RoomFields(name, length, width, height, wall, floor, ceiling, vol)
        IN /\ room = r
           /\ built = RoomInit(r).ok
           /\ last = [op |-> "Room", out |-> RoomInit(r)]
           /\ mat = Nil
           /\ heap = <<>>
           /\ placed = <<>>

AddMaterial ==
    \E material \in AddInputs :
        /\ built
        /\ Len(room.materials) < MaxMaterials
        /\ room' = [room EXCEPT !.materials = add_material(room, material).materials]
        /\ last' = [op |-> "add_material", material |-> material,
                    before |-> room.materials,
                    out |-> add_material(room, material).out]
        /\ UNCHANGED <<built, mat, heap, placed>>

RemoveMaterial ==
    \E index \in -1..MaxMaterials :
        /\ built
        /\ room' = [room EXCEPT !.materials = remove_material(room, index).materials]
        /\ last' = [op |-> "remove_material", index |-> index,
                    before |-> room.materials,
                    out |-> remove_material(room, index).out]
        /\ UNCHANGED <<built, mat, heap, placed>>

TotalAreaByMaterial ==
    \E material_name \in MaterialNameInputs :
        /\ built
        /\ last' = [op |-> "get_total_area_by_material",
                    material_name |-> material_name,
                    out |-> get_total_area_by_material(room, material_name)]
        /\ UNCHANGED <<room, built, mat, heap, placed>>

\* reading the five geometry properties
ReadGeometry ==
    /\ built
    /\ last' = [op |-> "geometry",
                out |-> [volume |-> volume(room), wall_area |-> wall_area(room),
                         floor_area |-> floor_area(room),
                         ceiling_area |-> ceiling_area(room),
                         total_surface_area |-> total_surface_area(room)]]
    /\ UNCHANGED <<room, built, mat, heap, placed>>

\* the query keeping the floor area it resolved in the manual field
EquivalentAbsorptionAreaCaching ==
    \E frequency \in QueryBands :
        /\ built
        /\ room' = IF floor_area(room).ok
                   THEN [room EXCEPT !.manual_floor_area = Some(floor_area(room).val)]
                   ELSE room
        /\ last' = [op |-> "calculate_equivalent_absorption_area",
                    frequency |-> frequency,
                    out |-> calculate_equivalent_absorption_area(room, frequency)]
        /\ UNCHANGED <<built, mat, heap, placed>>

EquivalentAbsorptionArea ==
    \E frequency \in QueryBands :
        /\ built
        /\ last' = [op |-> "calculate_equivalent_absorption_area",
                    frequency |-> frequency,
                    out |-> calculate_equivalent_absorption_area(room, frequency)]
        /\ UNCHANGED <<room, built, mat, heap, placed>>

StructuralAbsorptionArea ==
    \E frequency \in QueryBands :
        /\ built
        /\ last' = [op |-> "calculate_structural_absorption_area",
                    frequency |-> frequency,
                    out |-> calculate_structural_absorption_area(room, frequency)]
        /\ UNCHANGED <<room, built, mat, heap, placed>>

AcousticAbsorptionArea ==
    \E frequency \in QueryBands :
        /\ built
        /\ last' = [op |-> "calculate_acoustic_absorption_area",
                    frequency |-> frequency,
                    out |-> calculate_acoustic_absorption_area(room, frequency)]
        /\ UNCHANGED <<room, built, mat, heap, placed>>

EffectiveSurfaceArea ==
    /\ built
    /\ last' = [op |-> "get_effective_surface_area",
                out |-> get_effective_surface_area(room)]
    /\ UNCHANGED <<room, built, mat, heap, placed>>

AverageAbsorptionCoefficient ==
    \E frequency \in QueryBands :
        /\ built
        /\ last' = [op |-> "calculate_average_absorption_coefficient",
                    frequency |-> frequency,
                    out |-> calculate_average_absorption_coefficient(room, frequency)]
        /\ UNCHANGED <<room, built, mat, heap, placed>>

StructuralAverageAbsorptionCoefficient ==
    \E frequency \in QueryBands :
        /\ built
        /\ last' = [op |-> "calculate_structural_average_absorption_coefficient",
                    frequency |-> frequency,
                    out |-> calculate_structural_average_absorption_coefficient(
                                room, frequency)]
        /\ UNCHANGED <<room, built, mat, heap, placed>>

CombinedAverageAbsorptionCoefficient ==
    \E frequency \in QueryBands :
        /\ built
        /\ last' = [op |-> "calculate_combined_average_absorption_coefficient",
                    frequency |-> frequency,
                    out |-> calculate_combined_average_absorption_coefficient(
                                room, frequency)]
        /\ UNCHANGED <<room, built, mat, heap, placed>>

StructuralReverberationTime ==
    /\ built
    /\ last' = [op |-> "calculate_structural_reverberation_time"]
                @@ calculate_structural_reverberation_time(room)
    /\ UNCHANGED <<room, built, mat, heap, placed>>

CombinedReverberationTime ==
    /\ built
    /\ last' = [op |-> "calculate_combined_reverberation_time"]
                @@ calculate_combined_reverberation_time(room)
    /\ UNCHANGED <<room, built, mat, heap, placed>>

\* a direct call of the engine's single-band function on the room
ReverberationTimeForFrequency ==
    \E frequency \in ReverberationBands, alpha_avg \in AlphaInputs,
       equivalent_absorption_area \in AbsorptionAreaInputs,
       surface_area \in SurfaceAreaInputs, has_acoustic_materials \in BOOLEAN :
        /\ built
        /\ last' = [op |-> "calculate_reverberation_time_for_frequency",
                    frequency |-> frequency, alpha_avg |-> alpha_avg,
                    equivalent_absorption_area |-> equivalent_absorption_area,
                    surface_area |-> surface_area,
                    has_acoustic_materials |-> has_acoustic_materials,
                    out |-> calculate_reverberation_time_for_frequency(room,
                                frequency, alpha_avg, equivalent_absorption_area,
                                surface_area, has_acoustic_materials)]
        /\ UNCHANGED <<room, built, mat, heap, placed>>

Next ==
    \/ AddMaterial
    \/ RemoveMaterial
    \/ TotalAreaByMaterial
    \/ ReadGeometry
    \/ EquivalentAbsorptionArea
    \/ StructuralAbsorptionArea
    \/ AcousticAbsorptionArea
    \/ EffectiveSurfaceArea
    \/ AverageAbsorptionCoefficient
    \/ StructuralAverageAbsorptionCoefficient
    \/ CombinedAverageAbsorptionCoefficient
    \/ StructuralReverberationTime
    \/ CombinedReverberationTime

Spec == Init /\ [][Next]_vars

\* the single-band function called directly, on the rooms built from a
\* length, a wall area and a volume
InitEngine ==
    /\ Init
    /\ room.manual_floor_area = Nil
    /\ room.manual_ceiling_area = Nil

NextEngine ==
    \/ AddMaterial
    \/ RemoveMaterial
    \/ ReverberationTimeForFrequency

SpecEngine == InitEngine /\ [][NextEngine]_vars

\* a Material on its own: what its constructor and its later calls are given
MaterialNames == {" ", "Panel"}

SurfaceTypeInputs == {"Ceiling", "Roof"}

AreaInputs == {0, 30}

CategoryInputs == {ACOUSTIC, "Furniture"}

\* dictionaries of coefficients, as sequences of <<band, coefficient>>
ItemsInputs ==
    {<<>>,
     <<<<Number("int", 125), 10>>>>,
     <<<<Number("int", 125), 150>>>>,
     <<<<Number("float", 125), 10>>>>,
     <<<<Number("int", -125), 10>>>>,
     <<<<Number("int", 125), 10>>, <<Number("int", 250), -5>>>>}

BandInputs ==
    {Number("int", 125), Number("int", 250), Number("int", 0), Number("float", 500)}

CoefficientInputs == {-1, 0, 45, 100, 150}

NewAreaInputs == {-3, 0, 12}

LookupBands == {125, 250, 500}

\* Material(...): the object exists when the constructor returns
InitMaterial ==
    \E name \in MaterialNames, surface_type \in SurfaceTypeInputs,
       area \in AreaInputs, items \in ItemsInputs, category \in CategoryInputs :
        LET out == MaterialInit(name, surface_type, area, items, category)
        IN /\ built = out.ok
           /\ mat = (IF out.ok THEN out.val ELSE Nil)
           /\ room = Nil
           /\ last = [op |-> "Material", name |-> name,
                      surface_type |-> surface_type, area |-> area,
                      items |-> items, category |-> category, out |-> out]
           /\ heap = <<>>
           /\ placed = <<>>

SetAbsorptionCoefficient ==
    \E frequency \in BandInputs, coefficient \in CoefficientInputs :
        /\ built
        /\ mat' = set_absorption_coefficient(mat, frequency, coefficient).material
        /\ last' = [op |-> "set_absorption_coefficient", frequency |-> frequency,
                    coefficient |-> coefficient, before |-> mat,
                    out |-> set_absorption_coefficient(mat, frequency, coefficient).out]
        /\ UNCHANGED <<room, built, heap, placed>>

UpdateArea ==
    \E new_area \in NewAreaInputs :
        /\ built
        /\ mat' = update_area(mat, new_area).material
        /\ last' = [op |-> "update_area", new_area |-> new_area, before |-> mat,
                    out |-> update_area(mat, new_area).out]
        /\ UNCHANGED <<room, built, heap, placed>>

GetAbsorptionCoefficient ==
    \E frequency \in LookupBands :
        /\ built
        /\ last' = [op |-> "get_absorption_coefficient", frequency |-> frequency,
                    out |-> get_absorption_coefficient(mat, frequency)]
        /\ UNCHANGED <<room, built, mat, heap, placed>>

CalculateAbsorptionArea ==
    \E frequency \in LookupBands :
        /\ built
        /\ last' = [op |-> "calculate_absorption_area", frequency |-> frequency,
                    out |-> calculate_absorption_area(mat, frequency)]
        /\ UNCHANGED <<room, built, mat, heap, placed>>

NextMaterial ==
    \/ SetAbsorptionCoefficient
    \/ UpdateArea
    \/ GetAbsorptionCoefficient
    \/ CalculateAbsorptionArea

SpecMaterial == InitMaterial /\ [][NextMaterial]_vars

\* a catalog entry shared by the Materials built from it: the entries the
\* caller's mapping starts as, and what the caller later stores in it
CatalogEntries == {(125 :> 10), (125 :> 10) @@ (250 :> 60)}

CatalogBands == {125, 500}

CatalogCoefficients == {45, 150}

MaterialBands == {Number("int", 250), Number("float", 125)}

MaterialCoefficients == {0, 150}

InitCatalog ==
    \E entry \in CatalogEntries :
        /\ heap = <<entry>>
        /\ placed = <<>>
        /\ room = Nil
        /\ mat = Nil
        /\ built = FALSE
        /\ last = [op |-> "catalog", out |-> Ok(Nil)]

\* Material(name, surface_type, area, MATERIALS_DATABASE[name], category)
PlaceMaterial ==
    \E area \in AreaInputs :
        LET made == MaterialFrom(heap, 1, "Panel", "Ceiling", area, ACOUSTIC)
        IN /\ Len(placed) < MaxMaterials
           /\ heap' = made.heap
           /\ placed' = IF made.out.ok THEN Append(placed, made.out.val) ELSE placed
           /\ last' = [op |-> "Material", area |-> area, out |-> made.out]
           /\ UNCHANGED <<room, built, mat>>

\* the caller stores an item in its own mapping, entry[frequency] = coefficient:
\* a statement of the calling program, which src/ does not hold
CallerStores ==
    \E frequency \in CatalogBands, coefficient \in CatalogCoefficients :
        /\ heap' = StoreItem(heap, 1, frequency, coefficient)
        /\ last' = [op |-> "caller_store", frequency |-> frequency,
                    coefficient |-> coefficient, out |-> Ok(Nil)]
        /\ UNCHANGED <<room, built, mat, placed>>

\* set_absorption_coefficient on one of the Materials built
SetPlacedCoefficient ==
    \E index \in 1..Len(placed), frequency \in MaterialBands,
       coefficient \in MaterialCoefficients :
        LET set == SetCoefficientOf(heap, placed[index], frequency, coefficient)
        IN /\ heap' = set.heap
           /\ last' = [op |-> "set_absorption_coefficient", index |-> index,
                       frequency |-> frequency, coefficient |-> coefficient,
                       out |-> set.out]
           /\ UNCHANGED <<room, built, mat, placed>>

NextCatalog ==
    \/ PlaceMaterial
    \/ CallerStores
    \/ SetPlacedCoefficient

SpecCatalog == InitCatalog /\ [][NextCatalog]_vars

---------------------------------------------------------------------------
(* Claims *)

StructuralOp == "calculate_structural_reverberation_time"

CombinedOp == "calculate_combined_reverberation_time"

Computations == {StructuralOp, CombinedOp}

\* the room's geometry resolves and its volume and three areas are positive
GeometryPositive(r) ==
    /\ volume(r).ok /\ volume(r).val > 0
    /\ wall_area(r).ok /\ wall_area(r).val > 0
    /\ floor_area(r).ok /\ floor_area(r).val > 0
    /\ ceiling_area(r).ok /\ ceiling_area(r).val > 0

\* a results dictionary holds, for each of the six bands, a positive time
\* and an average coefficient within [0, 0.99]
BandsInRange(results) ==
    /\ DOMAIN results.reverberation_times = FrequencySet
    /\ DOMAIN results.average_absorption_coefficients = FrequencySet
    /\ \A f \in FrequencySet :
        /\ results.reverberation_times[f].num > 0
        /\ results.average_absorption_coefficients[f].num >= 0
        /\ 100 * results.average_absorption_coefficients[f].num
              <= 99 * results.average_absorption_coefficients[f].den

\* C1: on a room with positive volume and areas and at least one material,
\* the structural-only and the combined computation return a result set
\* whose six bands each have a reverberation time > 0 and an average
\* coefficient within [0, 0.99]
C1_ResultsInRange ==
    (last.op \in Computations /\ GeometryPositive(room) /\ room.materials # <<>>)
        => (last.out.ok /\ BandsInRange(last.out.val))

C1_Witness ==
    /\ last.op = CombinedOp
    /\ GeometryPositive(room)
    /\ \E i \in 1..Len(room.materials) : room.materials[i].category = ACOUSTIC
    /\ last.out.ok

\* C2: either computation fails with the no-materials error exactly when the
\* room's materials list is empty, and then returns no result set; with a
\* material of any category it never fails for that reason
C2_NoMaterials ==
    last.op \in Computations
        => /\ (room.materials = <<>>) <=> (last.out = Raise("ValueError", "no_materials"))
           /\ (room.materials = <<>>) => (~last.out.ok /\ last.results = Nil)

C2_Witness ==
    /\ last.op = StructuralOp
    /\ room.materials = <<>>
    /\ last.out = Raise("ValueError", "no_materials")

\* area x coefficient(band) of one material, 0 when it lacks the band
Contribution(material, frequency) ==
    IF frequency \in DOMAIN material.absorption_coefficients
    THEN material.area * material.absorption_coefficients[frequency]
    ELSE 0

\* the contributions of the first n materials that belong to categories
RECURSIVE ContributionsOf(_, _, _, _)
ContributionsOf(materials, frequency, categories, n) ==
    IF n = 0 THEN 0
    ELSE ContributionsOf(materials, frequency, categories, n - 1)
         + (IF materials[n].category \in categories
            THEN Contribution(materials[n], frequency) ELSE 0)

\* floorArea x k(band) in hundredths of m2, k = 0.09 for band <= 500, else 0.05
ExtraTerm(r, frequency) ==
    IF frequency < 501 THEN 9 * floor_area(r).val ELSE 5 * floor_area(r).val

\* C3: for every band and material list the all-materials absorption area is
\* the sum of area x coefficient(band) over the materials that have the band,
\* plus floorArea x k(band) (k = 0.09 up to and including 500 Hz, 0.05 above);
\* the structural area is the same sum over the Structural materials plus the
\* same term; a material lacking the band raises no error
C3_AbsorptionArea ==
    /\ (last.op = "calculate_equivalent_absorption_area" /\ floor_area(room).ok)
        => /\ last.out.ok
           /\ last.out.val =
                ContributionsOf(room.materials, last.frequency, Categories,
                                Len(room.materials))
                + ExtraTerm(room, last.frequency)
    /\ (last.op = "calculate_structural_absorption_area" /\ floor_area(room).ok)
        => /\ last.out.ok
           /\ last.out.val =
                ContributionsOf(room.materials, last.frequency, {STRUCTURAL},
                                Len(room.materials))
                + ExtraTerm(room, last.frequency)

\* the band 500 asked of a room holding a material without it and one with it
C3_Witness ==
    /\ last.op = "calculate_structural_absorption_area"
    /\ last.frequency = 500
    /\ last.out.ok
    /\ \E i, j \in 1..Len(room.materials) :
        /\ 500 \notin DOMAIN room.materials[i].absorption_coefficients
        /\ 500 \in DOMAIN room.materials[j].absorption_coefficients
        /\ room.materials[j].category = STRUCTURAL

AreaOps ==
    {"calculate_equivalent_absorption_area", "calculate_structural_absorption_area",
     "calculate_acoustic_absorption_area"}

\* the categories a query sums over
FilterOf(op) ==
    CASE op = "calculate_equivalent_absorption_area" -> Categories
      [] op = "calculate_structural_absorption_area" -> {STRUCTURAL}
      [] op = "calculate_acoustic_absorption_area" -> {ACOUSTIC}

\* what a query's result holds beyond the sum over its materials
Surplus(r, op, frequency, value) ==
    value - ContributionsOf(r.materials, frequency, FilterOf(op), Len(r.materials))

\* C4 as stated: the term floorArea x k(band) is part of the absorption area
\* under every category filter, the acoustic-treatment filter included
C4_ExtraUnderEveryFilter ==
    (last.op \in AreaOps /\ last.out.ok /\ floor_area(room).ok)
        => Surplus(room, last.op, last.frequency, last.out.val)
              = ExtraTerm(room, last.frequency)

\* C4 amended: the term is part of the unfiltered and of the Structural area;
\* the acoustic-treatment area is the bare sum, without the term (and is
\* returned even when the floor area does not resolve)
C4_ExtraByFilter ==
    /\ (last.op \in AreaOps \ {"calculate_acoustic_absorption_area"}
            /\ last.out.ok)
        => Surplus(room, last.op, last.frequency, last.out.val)
              = ExtraTerm(room, last.frequency)
    /\ last.op = "calculate_acoustic_absorption_area"
        => /\ last.out.ok
           /\ Surplus(room, last.op, last.frequency, last.out.val) = 0

C4_Witness ==
    /\ last.op = "calculate_acoustic_absorption_area"
    /\ last.out.ok
    /\ last.out.val > 0
    /\ floor_area(room).ok
    /\ floor_area(room).val > 0

\* n(band) as the specification tabulates it, in 1/10000
AirTerm(frequency) ==
    IF frequency = 2000 THEN 10
    ELSE IF frequency = 4000 THEN 2
    ELSE IF frequency \in {125, 250, 500, 1000} THEN 0
    ELSE 6

\* area x phi(absorption / area), plus n(band) x V above 1000 Hz, in 1/10000 m2
FormulaDenominator(V, frequency, absorption, area) ==
    area * calculate_phi_function(Frac(absorption, 100 * area))
        + (IF frequency > 1000 THEN AirTerm(frequency) * V ELSE 0)

\* 0.163 V over that denominator
FormulaTime(V, frequency, absorption, area) ==
    Frac(1630 * V, FormulaDenominator(V, frequency, absorption, area))

\* the summed area of the acoustic-treatment materials among the first n
RECURSIVE AcousticAreaOf(_, _)
AcousticAreaOf(materials, n) ==
    IF n = 0 THEN 0
    ELSE AcousticAreaOf(materials, n - 1)
         + (IF materials[n].category = ACOUSTIC THEN materials[n].area ELSE 0)

AcousticArea(r) == AcousticAreaOf(r.materials, Len(r.materials))

ReverberationOp == "calculate_reverberation_time_for_frequency"

\* the area the formula divides by in a direct call: the given surface area,
\* the room's total when none is given, less the acoustic area when flagged
CallArea ==
    (IF last.surface_area = Nil THEN total_surface_area(room).val
     ELSE Val(last.surface_area))
        - (IF last.has_acoustic_materials THEN AcousticArea(room) ELSE 0)

\* C6: a value reverberationTime returns is 0.163 V / denominator, the
\* denominator being area x phi(absorption / area) up to and including
\* 1000 Hz and that plus n(band) x V above, with n = 0.0010 at 2000,
\* 0.0002 at 4000, 0 at 125..1000 and 0.0006 for a band outside the table
C6_ReverberationFormula ==
    (last.op = ReverberationOp /\ last.out.ok)
        => last.out.val =
              FormulaTime(volume(room).val, last.frequency,
                          last.equivalent_absorption_area, CallArea)

\* a returned value for a band above 1000 Hz that the table does not hold
C6_Witness ==
    /\ last.op = ReverberationOp
    /\ last.out.ok
    /\ last.frequency = 8000
    /\ volume(room).val > 0

\* the denominator of a direct call is defined: the area resolves and is not
\* zero, and the volume resolves where the band needs it
CallDenominatorDefined ==
    /\ (last.surface_area = Nil => total_surface_area(room).ok)
    /\ CallArea # 0
    /\ (last.frequency > 1000 => volume(room).ok)

CallDenominator ==
    FormulaDenominator(IF last.frequency > 1000 THEN volume(room).val ELSE 0,
                       last.frequency, last.equivalent_absorption_area, CallArea)

\* C7: reverberationTime returns no value when the denominator of its formula
\* is exactly zero: every call whose denominator is zero fails with the
\* degenerate-denominator error
C7_ZeroDenominator ==
    (last.op = ReverberationOp /\ CallDenominatorDefined /\ CallDenominator = 0)
        => last.out = Raise("ValueError", "zero_denominator")

\* zero absorption with a zero air term (a band above 1000 Hz, volume 0)
C7_Witness ==
    /\ last.op = ReverberationOp
    /\ last.out = Raise("ValueError", "zero_denominator")
    /\ last.equivalent_absorption_area = 0
    /\ last.frequency > 1000

\* a band of a results dictionary fails the post-check
BandFails(results, f) ==
    \/ results.reverberation_times[f].num <= 0
    \/ results.average_absorption_coefficients[f].num < 0
    \/ results.average_absorption_coefficients[f].num
          > results.average_absorption_coefficients[f].den

SlowBands(results) ==
    {f \in FrequencySet :
        results.reverberation_times[f].num > 10 * results.reverberation_times[f].den}

\* C8: post-validation fails if and only if some band has a reverberation
\* time <= 0 or an average coefficient outside [0, 1]; a time above 10 s only
\* prints a warning, and the computation still returns the complete result
\* set for the six bands
C8_Validation ==
    (last.op \in Computations /\ last.results # Nil)
        => LET results == Val(last.results)
           IN /\ ~last.out.ok <=> \E f \in FrequencySet : BandFails(results, f)
              /\ last.out.ok =>
                    /\ last.out.val = results
                    /\ DOMAIN last.out.val.reverberation_times = FrequencySet
                    /\ {last.printed[i] : i \in 1..Len(last.printed)}
                          = SlowBands(results)

\* a result set returned although one of its times exceeds 10 s
C8_Witness ==
    /\ last.op \in Computations
    /\ last.out.ok
    /\ SlowBands(last.out.val) # {}
    /\ last.printed # <<>>

AverageOps ==
    {"calculate_average_absorption_coefficient",
     "calculate_structural_average_absorption_coefficient",
     "calculate_combined_average_absorption_coefficient"}

\* the absorption area and the divisor the specification gives each aggregate
AggregateArea(r, op, frequency) ==
    ContributionsOf(r.materials, frequency,
                    IF op = "calculate_structural_average_absorption_coefficient"
                    THEN {STRUCTURAL} ELSE Categories,
                    Len(r.materials))
        + ExtraTerm(r, frequency)

AggregateDivisor(r, op) ==
    IF op = "calculate_average_absorption_coefficient"
    THEN total_surface_area(r).val
    ELSE get_effective_surface_area(r).val

\* C9: each of the three average coefficients is min(area / divisor, 0.99)
\* and so never exceeds 0.99: all-materials over totalSurfaceArea,
\* structural over effectiveSurfaceArea(), combined (unfiltered area) over
\* effectiveSurfaceArea()
C9_AverageCoefficient ==
    (last.op \in AverageOps /\ last.out.ok)
        => LET quotient == Frac(AggregateArea(room, last.op, last.frequency),
                                100 * AggregateDivisor(room, last.op))
           IN /\ last.out.val =
                    (IF FracLeq(quotient, AlphaCeiling) THEN quotient
                     ELSE AlphaCeiling)
              /\ 100 * last.out.val.num <= 99 * last.out.val.den

\* a quotient above 0.99, returned as 0.99
C9_Witness ==
    /\ last.op = "calculate_combined_average_absorption_coefficient"
    /\ last.out.ok
    /\ last.out.val = AlphaCeiling
    /\ AggregateArea(room, last.op, last.frequency)
          > 99 * AggregateDivisor(room, last.op)
    /\ AggregateDivisor(room, last.op) > 0

\* C10 as stated: a Room the constructor accepted resolves volume, wallArea,
\* floorArea, ceilingArea and totalSurfaceArea without error
C10_AcceptedRoomResolves ==
    (built /\ last.op = "geometry")
        => /\ last.out.volume.ok
           /\ last.out.wall_area.ok
           /\ last.out.floor_area.ok
           /\ last.out.ceiling_area.ok
           /\ last.out.total_surface_area.ok

\* C11 as stated: construction fails whenever the name is empty or a supplied
\* dimension or a supplied manual area is not positive, whatever else is
\* supplied: no Room exists with such a field
C11_NonPositiveRejected ==
    (Strip(room.name) = ""
        \/ NonPositive(room.length) \/ NonPositive(room.width)
        \/ NonPositive(room.height)
        \/ NonPositive(room.manual_wall_area)
        \/ NonPositive(room.manual_floor_area)
        \/ NonPositive(room.manual_ceiling_area))
        => ~built

\* what Material construction must refuse
BadConstruction ==
    \/ Strip(last.name) = ""
    \/ last.area < 1
    \/ last.surface_type \notin {"Walls", "Ceiling", "Floor", "Glazing", "Doors"}
    \/ last.category \notin {STRUCTURAL, ACOUSTIC}
    \/ \E i \in 1..Len(last.items) :
          \/ last.items[i][2] < 0 \/ last.items[i][2] > 100
          \/ last.items[i][1].type # "int" \/ last.items[i][1].value < 1

\* C12: a Material that exists has area > 0, every stored coefficient within
\* [0, 1], every stored band positive and its surface type and category in
\* their enums, after construction and after any accepted or rejected
\* setCoefficient and updateArea; a rejected call changes nothing; a
\* construction with a coefficient outside [0, 1], a non-positive area, an
\* empty name or an unknown surface type or category yields no Material
C12_MaterialInvariant ==
    /\ built =>
        /\ mat.area > 0
        /\ \A f \in DOMAIN mat.absorption_coefficients :
              f > 0 /\ 0 <= mat.absorption_coefficients[f]
                    /\ mat.absorption_coefficients[f] <= 100
        /\ mat.surface_type \in {"Walls", "Ceiling", "Floor", "Glazing", "Doors"}
        /\ mat.category \in {STRUCTURAL, ACOUSTIC}
    /\ (last.op = "Material" /\ BadConstruction) => (~built /\ ~last.out.ok)
    /\ (last.op \in {"set_absorption_coefficient", "update_area"} /\ ~last.out.ok)
        => mat = last.before
    /\ (last.op = "set_absorption_coefficient"
            /\ (last.coefficient < 0 \/ last.coefficient > 100
                    \/ last.frequency.type # "int" \/ last.frequency.value < 1))
        => ~last.out.ok
    /\ (last.op = "update_area" /\ last.new_area < 1) => ~last.out.ok

\* a coefficient of 1.5 refused by the setter of a Material that holds a band
C12_Witness ==
    /\ built
    /\ last.op = "set_absorption_coefficient"
    /\ last.coefficient = 150
    /\ last.frequency.type = "int"
    /\ last.frequency.value > 0
    /\ ~last.out.ok
    /\ DOMAIN mat.absorption_coefficients # {}

\* the dictionary after band f is given the coefficient c
Stored(coefficients, f, c) ==
    [b \in DOMAIN coefficients \cup {f} |-> IF b = f THEN c ELSE coefficients[b]]

\* the answer of a lookup of band f in a dictionary, times factor
Lookup(coefficients, f, factor) ==
    IF f \in DOMAIN coefficients THEN Ok(factor * coefficients[f])
    ELSE Raise("ValueError", "coefficient_not_found")

\* C13: absorptionCoefficient(band) returns the value last stored for the
\* band, by construction or by a later accepted setCoefficient, and fails
\* with 'band not found' when the band is absent; absorptionArea(band) is
\* area x that coefficient and fails the same way.  Construction stores the
\* coefficients as given; an accepted setCoefficient(f, c) stores c for f and
\* keeps the other bands; no other call changes what is stored
C13_CoefficientRoundTrip ==
    /\ built =>
        /\ DOMAIN mat.absorption_coefficients
              = {last.items[i][1].value : i \in 1..Len(last.items)}
        /\ \A i \in 1..Len(last.items) :
              mat.absorption_coefficients[last.items[i][1].value] = last.items[i][2]
    /\ [][/\ (last'.op = "set_absorption_coefficient" /\ last'.out.ok)
              => mat'.absorption_coefficients =
                    Stored(mat.absorption_coefficients, last'.frequency.value,
                           last'.coefficient)
          /\ ~(last'.op = "set_absorption_coefficient" /\ last'.out.ok)
              => mat'.absorption_coefficients = mat.absorption_coefficients
          /\ last'.op = "get_absorption_coefficient"
              => last'.out = Lookup(mat.absorption_coefficients, last'.frequency, 1)
          /\ last'.op = "calculate_absorption_area"
              => last'.out =
                    Lookup(mat.absorption_coefficients, last'.frequency, mat'.area)
         ]_vars

\* band 125 constructed as 0.10, set to 0.45 and read back as 0.45
C13_Witness ==
    /\ built
    /\ last.op = "get_absorption_coefficient"
    /\ last.frequency = 125
    /\ last.out = Ok(45)
    /\ mat.absorption_coefficients[125] = 45

\* the materials of the room that carry a name
Carriers(r, material_name) ==
    {i \in 1..Len(r.materials) : r.materials[i].name = material_name}

\* the summed area of the materials among the first n that carry the name
RECURSIVE AreaOfCarriers(_, _, _)
AreaOfCarriers(materials, material_name, n) ==
    IF n = 0 THEN 0
    ELSE AreaOfCarriers(materials, material_name, n - 1)
         + (IF materials[n].name = material_name THEN materials[n].area ELSE 0)

\* C14 as stated: the total area of a name no material of the room carries
\* fails with a lookup error; for a name that is present the result is the
\* sum of the areas of the materials with that name
C14_TotalAreaByName ==
    last.op = "get_total_area_by_material"
        => IF Carriers(room, last.material_name) = {}
           THEN ~last.out.ok
           ELSE /\ last.out.ok
                /\ last.out.val =
                      AreaOfCarriers(room.materials, last.material_name,
                                     Len(room.materials))

\* the three dimensions are all given
Dimensioned(r) == r.length # Nil /\ r.width # Nil /\ r.height # Nil

\* C15: volume is the manual volume when one is given, else length x width x
\* height; wallArea the manual wall area when given, else 2 x (length x
\* height + width x height); floorArea and ceilingArea their manual values
\* when given, else length x width; totalSurfaceArea is the sum of the three
\* areas; a manual value wins also when the three dimensions are supplied
C15_GeometryPrecedence ==
    last.op = "geometry" =>
        /\ room.manual_volume # Nil => last.out.volume = Ok(room.manual_volume[1])
        /\ (room.manual_volume = Nil /\ Dimensioned(room))
            => last.out.volume = Ok(room.length[1] * room.width[1] * room.height[1])
        /\ room.manual_wall_area # Nil
            => last.out.wall_area = Ok(room.manual_wall_area[1])
        /\ (room.manual_wall_area = Nil /\ Dimensioned(room))
            => last.out.wall_area =
                  Ok(2 * room.length[1] * room.height[1]
                     + 2 * room.width[1] * room.height[1])
        /\ room.manual_floor_area # Nil
            => last.out.floor_area = Ok(room.manual_floor_area[1])
        /\ (room.manual_floor_area = Nil /\ Dimensioned(room))
            => last.out.floor_area = Ok(room.length[1] * room.width[1])
        /\ room.manual_ceiling_area # Nil
            => last.out.ceiling_area = Ok(room.manual_ceiling_area[1])
        /\ (room.manual_ceiling_area = Nil /\ Dimensioned(room))
            => last.out.ceiling_area = Ok(room.length[1] * room.width[1])
        /\ (last.out.wall_area.ok /\ last.out.floor_area.ok
                /\ last.out.ceiling_area.ok)
            => last.out.total_surface_area =
                  Ok(last.out.wall_area.val + last.out.floor_area.val
                     + last.out.ceiling_area.val)

\* a manual wall area returned by a room whose three dimensions are given
\* and would give another value
C15_Witness ==
    /\ last.op = "geometry"
    /\ Dimensioned(room)
    /\ room.length[1] > 0
    /\ room.manual_wall_area # Nil
    /\ last.out.wall_area = Ok(room.manual_wall_area[1])
    /\ room.manual_wall_area[1]
          # 2 * (room.length[1] + room.width[1]) * room.height[1]
    /\ last.out.total_surface_area.ok

LoopReached(r) ==
    /\ r.materials # <<>>
    /\ calculate_critical_frequency(r).ok
    /\ total_surface_area(r).ok

\* the calculation of one band of a computation on the room
BandOutcome(r, op, f) ==
    IF op = StructuralOp THEN StructuralBand(r, f) ELSE CombinedBand(r, f)

\* the first of the six bands, in order, that satisfies a condition
FirstBand(Failing(_)) ==
    Frequencies[CHOOSE i \in 1..Len(Frequencies) :
                    /\ Failing(Frequencies[i])
                    /\ \A j \in 1..(i - 1) : ~Failing(Frequencies[j])]

\* C18: a failure while a band is calculated, and a failure of the
\* post-validation, ends the structural-only or combined computation with an
\* error and no result set, partial or complete; the error names the band
\* concerned: the first band whose calculation fails, or the first band
\* whose stored values fail the post-check
C18_FailureNamesBand ==
    (last.op \in Computations /\ LoopReached(room) /\ ~last.out.ok)
        => /\ "val" \notin DOMAIN last.out
           /\ "frequency" \in DOMAIN last.out
           /\ IF last.results = Nil
              THEN LET Failing(f) == ~BandOutcome(room, last.op, f).ok
                   IN /\ \E f \in FrequencySet : Failing(f)
                      /\ last.out.frequency = FirstBand(Failing)
                      /\ last.out.exc = "ValueError"
                      /\ last.out.cause =
                            BandOutcome(room, last.op, last.out.frequency)
              ELSE LET Failing(f) == BandFails(Val(last.results), f)
                   IN /\ \E f \in FrequencySet : Failing(f)
                      /\ last.out.frequency = FirstBand(Failing)
                      /\ last.out.exc = "ValueError"

\* a computation ended by the zero denominator of one of its bands
C18_Witness ==
    /\ last.op \in Computations
    /\ LoopReached(room)
    /\ ~last.out.ok
    /\ last.results = Nil
    /\ last.out.msg = "band_error"
    /\ last.out.cause.msg = "zero_denominator"
    /\ last.out.frequency \in FrequencySet

\* what phi is called with in the band loop of a computation: the average
\* coefficient the loop stores for the band
LoopPhiArgument(results, f) == results.average_absorption_coefficients[f]

\* what phi is called with inside reverberationTime for the band: the
\* quotient of the band's absorption area and the denominator area
EnginePhiArgument(results, f) ==
    avg_alpha(results.equivalent_absorption_areas[f], results.effective_surface_area)

PhiArguments(results, f) ==
    {LoopPhiArgument(results, f), EnginePhiArgument(results, f)}

\* C19 as stated: phi receives no argument >= 1 from any caller in the
\* engine, and the argument of its logarithm is >= 0.01
C19_PhiArgumentBelowOne ==
    (last.op \in Computations /\ last.results # Nil)
        => \A f \in FrequencySet : \A a \in PhiArguments(Val(last.results), f) :
              /\ a.num < a.den
              /\ LogArgument(a).den <= 100 * LogArgument(a).num

\* C19 amended: the band loops call phi with an average coefficient that is
\* at most 0.99; reverberationTime calls phi with the quotient of absorption
\* area and denominator area as it is, which is >= 1 when the absorption
\* area reaches the denominator area; under every caller the argument of the
\* logarithm inside phi, 1 - min(alphaAvg, 0.99), is >= 0.01
C19_PhiClampsInside ==
    (last.op \in Computations /\ last.results # Nil)
        => LET results == Val(last.results)
           IN \A f \in FrequencySet :
                /\ 100 * LoopPhiArgument(results, f).num
                      <= 99 * LoopPhiArgument(results, f).den
                /\ EnginePhiArgument(results, f).num
                        * 100 * results.effective_surface_area
                      = results.equivalent_absorption_areas[f]
                            * EnginePhiArgument(results, f).den
                /\ \A a \in PhiArguments(results, f) :
                      LogArgument(a).den <= 100 * LogArgument(a).num

\* a combined computation one of whose bands absorbs more than the surface
\* area: the loop passes 0.99, reverberationTime passes a quotient >= 1
C19_Witness ==
    /\ last.op = CombinedOp
    /\ last.out.ok
    /\ \E f \in FrequencySet :
          /\ LoopPhiArgument(last.out.val, f) = AlphaCeiling
          /\ EnginePhiArgument(last.out.val, f).num
                >= EnginePhiArgument(last.out.val, f).den

\* the surface area a direct call starts from: the one given, or the room's
\* total when none is given
GivenArea ==
    IF last.surface_area = Nil THEN total_surface_area(room).val
    ELSE last.surface_area[1]

\* the outcome of a direct call whose denominator area is area: no value
\* for area 0 (the average coefficient divides by it), else the formula
UsesArea(area) ==
    /\ area = 0 => (~last.out.ok /\ last.out.exc = "ZeroDivisionError")
    /\ last.out.ok =>
          last.out.val = FormulaTime(volume(room).val, last.frequency,
                                     last.equivalent_absorption_area, area)

\* C20: with hasAcousticMaterials true reverberationTime uses as denominator
\* area the given surface area minus the summed area of the room's
\* acoustic-treatment materials; with it false the given surface area
\* unchanged; with no surface area given, the room's totalSurfaceArea in
\* place of the given one
C20_DenominatorArea ==
    (last.op = ReverberationOp
            /\ (last.surface_area = Nil => total_surface_area(room).ok))
        => IF last.has_acoustic_materials
           THEN UsesArea(GivenArea - AcousticArea(room))
           ELSE UsesArea(GivenArea)

\* a flagged call on a room holding acoustic treatment, with a surface area
\* given, that returns a value
C20_Witness ==
    /\ last.op = ReverberationOp
    /\ last.has_acoustic_materials
    /\ last.surface_area # Nil
    /\ AcousticArea(room) > 0
    /\ last.surface_area[1] > AcousticArea(room)
    /\ last.out.ok

\* the materials that are not acoustic treatment, in order
RECURSIVE WithoutAcoustic(_)
WithoutAcoustic(materials) ==
    IF materials = <<>> THEN <<>>
    ELSE (IF Head(materials).category = ACOUSTIC THEN <<>> ELSE <<Head(materials)>>)
         \o WithoutAcoustic(Tail(materials))

AreasResolve(r) == wall_area(r).ok /\ floor_area(r).ok /\ ceiling_area(r).ok

SumOfAreas(r) == wall_area(r).val + floor_area(r).val + ceiling_area(r).val

ListOps == {"add_material", "remove_material"}

\* the Materials a list holds, each with all its fields
MaterialsIn(materials) == {materials[i] : i \in 1..Len(materials)}

\* C23: no aggregation query of the Room and no engine computation
\* (structural-only, combined, their validation) changes the Room: its
\* geometry, the membership and order of its materials list and every field
\* of every Material stay as they were; add_material and remove_material
\* change only which Materials the list holds: the geometry stays, and every
\* Material of the list afterwards is one the list held, or the one added,
\* with its fields as they were
C23_ReadOnlyRoom ==
    [][/\ last'.op \notin ListOps => room' = room
       /\ last'.op \in ListOps =>
            /\ [room' EXCEPT !.materials = room.materials] = room
            /\ MaterialsIn(room'.materials) \subseteq
                  MaterialsIn(room.materials)
                     \cup (IF last'.op = "add_material" THEN {last'.material} ELSE {})
      ]_vars

\* a combined computation that returned on a room of two materials, one of
\* them acoustic treatment
C23_Witness ==
    /\ last.op = CombinedOp
    /\ last.out.ok
    /\ Len(room.materials) = 2
    /\ AcousticArea(room) > 0
    /\ room.materials[1] # room.materials[2]

RecordedTime(results, f) ==
    Frac(1630 * results.room_volume,
         results.effective_surface_area * results.phi_values[f]
            + (IF f > 1000 THEN AirTerm(f) * results.room_volume ELSE 0))

\* C25: in the result set of either computation the values recorded for a
\* band agree with one another: phi_values[band] is phi of the recorded
\* average coefficient, and the recorded reverberation time is 0.163 x volume
\* / (recorded effective surface area x phi_values[band] + n(band) x volume),
\* with n = 0 up to 1000 Hz: the phi and the surface area used inside
\* reverberationTime are the ones reported
C25_RecordedValuesAgree ==
    (last.op \in Computations /\ last.results # Nil)
        => LET results == Val(last.results)
           IN \A f \in FrequencySet :
                /\ results.phi_values[f] =
                      calculate_phi_function(results.average_absorption_coefficients[f])
                /\ results.reverberation_times[f] = RecordedTime(results, f)

\* a combined result with a band whose recorded coefficient is the ceiling
\* 0.99 (the quotient inside reverberationTime is larger) and an air term
C25_Witness ==
    /\ last.op = CombinedOp
    /\ last.out.ok
    /\ last.out.val.room_volume > 0
    /\ \E f \in FrequencySet :
          /\ f > 1000
          /\ last.out.val.average_absorption_coefficients[f] = AlphaCeiling
          /\ last.out.val.equivalent_absorption_areas[f]
                > 100 * last.out.val.effective_surface_area
          /\ last.out.val.reverberation_times[f] = RecordedTime(last.out.val, f)

\* a <= b for fractions with num >= 0 and den > 0, compared by their integer
\* parts and then, the other way round, by the reciprocals of what remains:
\* exact, and no product is formed
RECURSIVE AtMost(_, _)
AtMost(a, b) ==
    IF a.num \div a.den # b.num \div b.den
    THEN a.num \div a.den < b.num \div b.den
    ELSE IF a.num % a.den = 0 THEN TRUE
    ELSE IF b.num % b.den = 0 THEN FALSE
    ELSE AtMost([num |-> b.den, den |-> b.num % b.den],
                [num |-> a.den, den |-> a.num % a.den])

\* the structural-only computation of the room a combined result came from
StructuralOutcome == calculate_structural_reverberation_time(room).out

\* C26: for the same Room, whenever both computations succeed, the combined
\* reverberation time of every band is at most the structural-only time of
\* that band, and equals it when no acoustic-treatment material contributes
\* absorption at the band
C26_CombinedAtMostStructural ==
    (last.op = CombinedOp /\ last.out.ok)
        => \A structural \in {StructuralOutcome} :
              structural.ok =>
                 \A f \in FrequencySet :
                    /\ AtMost(last.out.val.reverberation_times[f],
                              structural.val.reverberation_times[f])
                    /\ last.out.val.acoustic_absorption_areas[f] = 0
                          => last.out.val.reverberation_times[f]
                                = structural.val.reverberation_times[f]

\* both computations succeed on a room whose acoustic treatment shortens the
\* time of a band
C26_Witness ==
    /\ last.op = CombinedOp
    /\ last.out.ok
    /\ \E structural \in {StructuralOutcome} :
          /\ structural.ok
          /\ \E f \in FrequencySet :
                /\ last.out.val.acoustic_absorption_areas[f] > 0
                /\ ~AtMost(structural.val.reverberation_times[f],
                           last.out.val.reverberation_times[f])

\* C27: what calculate_reverberation_time_for_frequency returns does not
\* depend on its alpha_avg argument: a call that differs from the one made
\* only in alpha_avg returns the same value or fails with the same error
C27_AlphaIgnored ==
    last.op = ReverberationOp
        => \A alpha_avg \in AlphaInputs :
              calculate_reverberation_time_for_frequency(room, last.frequency,
                  alpha_avg, last.equivalent_absorption_area, last.surface_area,
                  last.has_acoustic_materials) = last.out

\* a value returned for an alpha_avg that is not the quotient of the
\* absorption area and the denominator area of the call
C27_Witness ==
    /\ last.op = ReverberationOp
    /\ last.out.ok
    /\ last.equivalent_absorption_area > 0
    /\ last.alpha_avg.num * 100 * CallArea
          # last.equivalent_absorption_area * last.alpha_avg.den
    /\ \E alpha_avg \in AlphaInputs : alpha_avg # last.alpha_avg

\* C28: a rejected mutator leaves the Material as it was:
\* set_absorption_coefficient with a band that is not a positive integer or
\* with a coefficient outside [0, 1] fails, changes no stored coefficient and
\* adds no band; update_area with a value <= 0 fails and leaves the area at
\* its previous value; nothing else of the Material changes either
C28_RejectedMutatorKeeps ==
    [][/\ (last'.op = "set_absorption_coefficient"
              /\ (last'.frequency.type # "int" \/ last'.frequency.value < 1
                     \/ last'.coefficient < 0 \/ last'.coefficient > 100))
          => /\ ~last'.out.ok
             /\ DOMAIN mat'.absorption_coefficients = DOMAIN mat.absorption_coefficients
             /\ \A f \in DOMAIN mat.absorption_coefficients :
                   mat'.absorption_coefficients[f] = mat.absorption_coefficients[f]
             /\ mat' = mat
       /\ (last'.op = "update_area" /\ last'.new_area < 1)
          => /\ ~last'.out.ok
             /\ mat'.area = mat.area
             /\ mat' = mat
       /\ (last'.op \in {"set_absorption_coefficient", "update_area"}
              /\ ~last'.out.ok)
          => mat' = mat
      ]_vars

\* update_area(-3) refused on a Material that had been given the area 12
C28_Witness ==
    /\ built
    /\ last.op = "update_area"
    /\ last.new_area = -3
    /\ ~last.out.ok
    /\ last.before.area = 12
    /\ mat.area = 12

\* the coefficients of the i-th Material built, as a lookup would find them
CoefficientsOf(objects, materials, i) == objects[materials[i].absorption_coefficients]

\* C29: a Material owns a private copy of its coefficient mapping: it is
\* built with the items of the mapping handed to the constructor and leaves
\* that mapping as it was; a later change of the caller's mapping changes no
\* Material's coefficients; set_absorption_coefficient on a Material changes
\* neither the caller's mapping nor any other Material built from it
C29_PrivateCopy ==
    [][/\ (last'.op = "Material" /\ last'.out.ok) =>
            /\ CoefficientsOf(heap', placed', Len(placed')) = heap[1]
            /\ heap'[1] = heap[1]
       /\ last'.op \in {"Material", "caller_store"} =>
            \A i \in 1..Len(placed) :
                CoefficientsOf(heap', placed', i) = CoefficientsOf(heap, placed, i)
       /\ last'.op = "set_absorption_coefficient" =>
            /\ heap'[1] = heap[1]
            /\ \A i \in 1..Len(placed) \ {last'.index} :
                  CoefficientsOf(heap', placed', i) = CoefficientsOf(heap, placed, i)
            /\ last'.out.ok =>
                  CoefficientsOf(heap', placed', last'.index)[last'.frequency.value]
                     = last'.coefficient
      ]_vars

\* two Materials built from one entry, the second given a coefficient the
\* first and the entry do not have
C29_Witness ==
    /\ last.op = "set_absorption_coefficient"
    /\ last.out.ok
    /\ last.index = 2
    /\ Len(placed) = 2
    /\ CoefficientsOf(heap, placed, 2)[250] = 0
    /\ CoefficientsOf(heap, placed, 1) # CoefficientsOf(heap, placed, 2)
    /\ heap[1] # CoefficientsOf(heap, placed, 2)

\* C30 as stated: a Room the constructor accepted and whose volume resolves
\* has volume > 0, a manual volume included, so that neither computation ends
\* in the square root of a negative volume or a division by a zero one
C30_AcceptedVolumePositive ==
    /\ (built /\ volume(room).ok) => volume(room).val > 0
    /\ last.op \in Computations =>
          /\ last.out # Raise("ValueError", "math_domain_error")
          /\ last.out # Raise("ZeroDivisionError", "division_by_zero")

====
